---- MODULE Spec2Model ----
(***************************************************************************)
(* Buy Line -> Vendor Name mapper (src/streamlit_app.py).                  *)
(*                                                                         *)
(* The session holds one table, st.session_state.master_map, with the      *)
(* columns code_norm / Buy Line / Vendor Name.  Two functions touch it:    *)
(*   update_master_mapping(df_map)   upserts the rows of File 1            *)
(*   apply_mapping_to_file2(df2)     rewrites manufacturer_Name of File 2  *)
(* and both go through normalize_code.                                     *)
(*                                                                         *)
(* Strings are sequences of tokens.  A token is one character, or, for     *)
(* column names and vendor names, a word that stands for a run of          *)
(* characters with no whitespace at either end ("Buy Line").  A cell of a  *)
(* data frame is NaN (a missing cell), a str, a float or an int.           *)
(***************************************************************************)
EXTENDS Integers, Sequences, FiniteSets

VARIABLES
    master_map,   \* st.session_state.master_map: sequence of rows
    op,           \* the function called last
    arg,          \* the data frame it was called with
    msg,          \* "ok", or the st.error / st.warning / exception it ended with
    ret,          \* the data frame it returned (NoFrame when it returned none)
    rerun,        \* the call repeated the previous call's File 1 (script rerun)
    history,      \* history variable: every row the successful ingests added
    x,            \* normalizer: the raw value
    code,         \* normalizer: normalize_code(x)
    code2         \* normalizer: normalize_code(code)

vars == <<master_map, op, arg, msg, ret, rerun, history, x, code, code2>>

(***************************************************************************)
(* Bounds of the model.                                                    *)
(***************************************************************************)
MaxLen == 4       \* longest enumerated raw string given to normalize_code
MaxRows == 2      \* most rows in an uploaded file
MaxHist == 5      \* most rows recorded in the history variable

(***************************************************************************)
(* Cells.                                                                  *)
(***************************************************************************)
NaN == [t |-> "nan"]
StrCell(s) == [t |-> "str", s |-> s]
FloatCell(neg, whole, tenths) == [t |-> "float", neg |-> neg, whole |-> whole, tenths |-> tenths]
IntCell(v) == [t |-> "int", v |-> v]
Unset == [t |-> "unset"]
NoFrame == [t |-> "none"]

Digits == <<"0", "1", "2", "3", "4", "5", "6", "7", "8", "9">>
IsDigit(c) == \E d \in DOMAIN Digits : Digits[d] = c
DigitVal(c) == (CHOOSE d \in DOMAIN Digits : Digits[d] = c) - 1
Whitespace == {" "}

\* pd.isna(x)
IsNa(v) == v.t = "nan"

RECURSIVE Dec(_)
\* str() of a non-negative integer: base 10, no leading zeros
Dec(n) == IF n < 10 THEN <<Digits[n + 1]>> ELSE Dec(n \div 10) \o <<Digits[(n % 10) + 1]>>

\* str() of an integer
IntStr(v) == IF v < 0 THEN <<"-">> \o Dec(-v) ELSE Dec(v)

\* str(x) of a cell: "46.0" for the float 46.0, "46" for the int 46
PyStr(v) ==
    CASE v.t = "str" -> v.s
      [] v.t = "int" -> IntStr(v.v)
      [] v.t = "float" ->
            (IF v.neg THEN <<"-">> ELSE <<>>) \o Dec(v.whole) \o <<".">> \o Dec(v.tenths)

RECURSIVE LStrip(_)
LStrip(s) == IF s # <<>> /\ Head(s) \in Whitespace THEN LStrip(Tail(s)) ELSE s

RECURSIVE RStrip(_)
RStrip(s) ==
    IF s # <<>> /\ s[Len(s)] \in Whitespace THEN RStrip(SubSeq(s, 1, Len(s) - 1)) ELSE s

\* claim C9's mutant of Strip: drops at most one whitespace character per side
StripOnce(s) ==
    LET l == IF s # <<>> /\ Head(s) \in Whitespace THEN Tail(s) ELSE s
    IN  IF l # <<>> /\ l[Len(l)] \in Whitespace THEN SubSeq(l, 1, Len(l) - 1) ELSE l

\* str.strip()
Strip(s) == RStrip(LStrip(s))

RECURSIVE DigitsVal(_)
\* the value of a run of digits; the empty run is 0
DigitsVal(ds) ==
    IF ds = <<>> THEN 0
    ELSE 10 * DigitsVal(SubSeq(ds, 1, Len(ds) - 1)) + DigitVal(ds[Len(ds)])

\* float(s), for the part of Python's grammar the token alphabet reaches:
\* [sign] digits [. [digits]]  |  [sign] . digits.  ok is FALSE where float()
\* raises ValueError; whole is the part before the point.
ParseFloat(s) ==
    LET signed == s # <<>> /\ s[1] \in {"+", "-"}
        body   == IF signed THEN Tail(s) ELSE s
        dots   == {i \in DOMAIN body : body[i] = "."}
        dot    == IF dots = {} THEN Len(body) + 1 ELSE CHOOSE i \in dots : TRUE
        ok     == /\ Cardinality(dots) <= 1
                  /\ \A i \in DOMAIN body : i \notin dots => IsDigit(body[i])
                  /\ \E i \in DOMAIN body : IsDigit(body[i])
    IN  [ok    |-> ok,
         neg   |-> signed /\ s[1] = "-",
         whole |-> IF ok THEN DigitsVal(SubSeq(body, 1, dot - 1)) ELSE 0]

\* int(float(s)): truncation toward zero keeps the part before the point
IntOfFloat(p) == IF p.neg THEN -(p.whole) ELSE p.whole

\* normalize_code(x)
normalize_code(v) ==
    IF IsNa(v) THEN NaN
    ELSE LET s == Strip(PyStr(v))
             p == ParseFloat(s)
         IN  IF p.ok THEN StrCell(IntStr(IntOfFloat(p))) ELSE StrCell(s)

(***************************************************************************)
(* Inputs of the normalizer.                                               *)
(***************************************************************************)
Chars == {" ", ",", "0", "4", ".", "-", "A"}

RECURSIVE StringsUpTo(_)
StringsUpTo(n) ==
    IF n = 0 THEN {<<>>}
    ELSE LET shorter == StringsUpTo(n - 1)
         IN  shorter \cup {Append(s, c) : s \in {t \in shorter : Len(t) = n - 1}, c \in Chars}

\* the raw values section 8 of the specification names
Examples ==
    { FloatCell(FALSE, 996539, 0),
      StrCell(<<"0", "4", "6", "1", "3", "5">>),
      StrCell(<<"1", "2", ",", "9", "4", "5">>),
      StrCell(<<"A", "B", "C", "-", "1", "2">>) }

RawValues ==
    {NaN} \cup Examples
          \cup {StrCell(s) : s \in StringsUpTo(MaxLen)}
          \cup {FloatCell(n, w, t) : n \in BOOLEAN, w \in {0, 4, 46}, t \in {0, 5}}
          \cup {IntCell(v) : v \in {-4, 0, 46}}

(***************************************************************************)
(* The normalizer on its own: draw a raw value, normalize it, normalize    *)
(* the result.                                                             *)
(***************************************************************************)
InitNorm ==
    /\ x \in RawValues
    /\ code = Unset
    /\ code2 = Unset
    /\ master_map = <<>>
    /\ op = "none"
    /\ arg = NoFrame
    /\ msg = "none"
    /\ ret = NoFrame
    /\ rerun = FALSE
    /\ history = <<>>

Normalize ==
    /\ code = Unset
    /\ code' = normalize_code(x)
    /\ UNCHANGED <<master_map, op, arg, msg, ret, rerun, history, x, code2>>

Renormalize ==
    /\ code # Unset
    /\ code2 = Unset
    /\ code2' = normalize_code(code)
    /\ UNCHANGED <<master_map, op, arg, msg, ret, rerun, history, x, code>>

NextNorm == Normalize \/ Renormalize

SpecNorm == InitNorm /\ [][NextNorm]_vars

(***************************************************************************)
(* Data frames: a sequence of column names and a sequence of rows, each    *)
(* row a sequence of cells in column order.                                *)
(***************************************************************************)
BuyLine == <<"Buy Line">>
VendorName == <<"Vendor Name">>
ManufacturerName == <<"manufacturer_Name">>
CodeNorm == <<"code_norm">>
Qty == <<"qty">>

Frame(columns, rows) == [columns |-> columns, rows |-> rows]
HasCol(columns, name) == \E i \in DOMAIN columns : columns[i] = name
ColIndex(columns, name) == CHOOSE i \in DOMAIN columns : columns[i] = name

\* claim C3's mutant of StripColumns: the column names are taken as they are
KeepColumns(columns) == columns

\* df_map.columns = [c.strip() for c in df_map.columns]
StripColumns(columns) == [i \in DOMAIN columns |-> Strip(columns[i])]

\* df_map.dropna(subset=["Buy Line"]), on the rows, b the Buy Line column
DropNa(rows, b) == SelectSeq(rows, LAMBDA r : ~IsNa(r[b]))

\* df_map["code_norm"] = df_map["Buy Line"].apply(normalize_code), then
\* df_map[["code_norm", "Buy Line", "Vendor Name"]]
MapRecords(rows, b, v) ==
    [i \in DOMAIN rows |->
        [code_norm |-> normalize_code(rows[i][b]), Buy_Line |-> rows[i][b], Vendor_Name |-> rows[i][v]]]

\* claim C2's mutant of DropDuplicates: nothing is dropped
KeepAll(rows) == rows

\* claim C1's mutant of DropDuplicates: keep="first"
KeepFirst(rows) ==
    LET kept == {i \in DOMAIN rows : \A j \in DOMAIN rows : j < i => rows[j].code_norm # rows[i].code_norm}
        F[i \in 0..Len(rows)] ==
            IF i = 0 THEN <<>> ELSE IF i \in kept THEN Append(F[i - 1], rows[i]) ELSE F[i - 1]
    IN  F[Len(rows)]

\* claim C8's mutant of DropDuplicates: keep=False, every duplicated code is dropped
KeepNone(rows) ==
    LET kept == {i \in DOMAIN rows : \A j \in DOMAIN rows : j # i => rows[j].code_norm # rows[i].code_norm}
        F[i \in 0..Len(rows)] ==
            IF i = 0 THEN <<>> ELSE IF i \in kept THEN Append(F[i - 1], rows[i]) ELSE F[i - 1]
    IN  F[Len(rows)]

\* combined.drop_duplicates(subset=["code_norm"], keep="last"): a row stays when no
\* later row has its code_norm; the rows that stay keep their order
DropDuplicates(rows) ==
    LET kept == {i \in DOMAIN rows : \A j \in DOMAIN rows : j > i => rows[j].code_norm # rows[i].code_norm}
        F[i \in 0..Len(rows)] ==
            IF i = 0 THEN <<>> ELSE IF i \in kept THEN Append(F[i - 1], rows[i]) ELSE F[i - 1]
    IN  F[Len(rows)]

\* update_master_mapping(df_map): the session's table after the call and how it ended
update_master_mapping(master, df_map) ==
    LET columns == StripColumns(df_map.columns)
    IN  IF ~HasCol(columns, BuyLine) \/ ~HasCol(columns, VendorName)
        THEN [master |-> master, msg |-> "SchemaError"]
        ELSE LET b == ColIndex(columns, BuyLine)
                 v == ColIndex(columns, VendorName)
                 new == MapRecords(DropNa(df_map.rows, b), b, v)
                 combined == master \o new
             IN  [master |-> DropDuplicates(combined), msg |-> "ok"]

\* df2["code_norm"] = values: an existing column is overwritten in place, a new one
\* is added last
SetColumn(df, name, values) ==
    IF HasCol(df.columns, name)
    THEN LET k == ColIndex(df.columns, name)
         IN  Frame(df.columns, [i \in DOMAIN df.rows |-> [df.rows[i] EXCEPT ![k] = values[i]]])
    ELSE Frame(Append(df.columns, name), [i \in DOMAIN df.rows |-> Append(df.rows[i], values[i])])

\* the rows of master that a left row with this key joins: equal code_norm, in
\* master's order; the projection master[["code_norm", "Vendor Name"]] keeps the name
Matches(master, key) == SelectSeq(master, LAMBDA e : e.code_norm = key)

\* df2.merge(master[["code_norm", "Vendor Name"]], how="left", on="code_norm"), on
\* the rows, c the code_norm column: one row per match with the match's Vendor Name
\* added last, and one row with NaN added for a left row without a match
LeftMerge(rows, c, master) ==
    LET Joined(r) ==
            LET ms == Matches(master, r[c])
            IN  IF ms = <<>> THEN <<Append(r, NaN)>>
                ELSE [k \in DOMAIN ms |-> Append(r, ms[k].Vendor_Name)]
        F[i \in 0..Len(rows)] == IF i = 0 THEN <<>> ELSE F[i - 1] \o Joined(rows[i])
    IN  F[Len(rows)]

\* claim C4's mutant of Replace: the Vendor Name is taken even where it is missing
ReplaceAlways(vendor, original) == vendor

\* np.where(merged["Vendor Name"].notna(), merged["Vendor Name"], merged["manufacturer_Name"])
Replace(vendor, original) == IF ~IsNa(vendor) THEN vendor ELSE original

\* merged.drop(columns=[...], errors="ignore")
DropColumns(df, names) ==
    LET keep == {i \in DOMAIN df.columns : df.columns[i] \notin names}
        Pick(s) ==
            LET F[i \in 0..Len(s)] ==
                    IF i = 0 THEN <<>> ELSE IF i \in keep THEN Append(F[i - 1], s[i]) ELSE F[i - 1]
            IN  F[Len(s)]
    IN  Frame(Pick(df.columns), [i \in DOMAIN df.rows |-> Pick(df.rows[i])])

\* claim C10's mutant of MasterAfterApply: the projection to code_norm and Vendor
\* Name is written back to the session
MasterProjected(master) == [i \in DOMAIN master |-> [master[i] EXCEPT !.Buy_Line = NaN]]

\* st.session_state.master_map after apply_mapping_to_file2: the function reads it
\* into master, projects and merges it, and assigns nothing to it
MasterAfterApply(master) == master

\* apply_mapping_to_file2(df2): the frame returned, how the call ended, and the
\* session's table after it
apply_mapping_to_file2(master, df2) ==
    IF ~HasCol(df2.columns, ManufacturerName)
    THEN [ret |-> df2, msg |-> "MissingColumn", master |-> master]
    ELSE LET m == ColIndex(df2.columns, ManufacturerName)
             coded == SetColumn(df2, CodeNorm,
                                [i \in DOMAIN df2.rows |-> normalize_code(df2.rows[i][m])])
             c == ColIndex(coded.columns, CodeNorm)
         IN  IF master = <<>>
             THEN [ret |-> coded, msg |-> "EmptyStore", master |-> MasterAfterApply(master)]
             ELSE IF HasCol(coded.columns, VendorName)
             \* the merge renames both Vendor Name columns and merged["Vendor Name"] raises
             THEN [ret |-> NoFrame, msg |-> "KeyError", master |-> MasterAfterApply(master)]
             ELSE LET joined == LeftMerge(coded.rows, c, master)
                      w == Len(coded.columns) + 1
                      merged == Frame(Append(coded.columns, VendorName),
                                      [i \in DOMAIN joined |->
                                          [joined[i] EXCEPT ![m] = Replace(joined[i][w], joined[i][m])]])
                  IN  [ret |-> DropColumns(merged, {VendorName, CodeNorm}),
                       msg |-> "ok",
                       master |-> MasterAfterApply(master)]

(***************************************************************************)
(* Uploaded files.                                                         *)
(***************************************************************************)
RECURSIVE SeqsUpTo(_, _)
SeqsUpTo(S, n) ==
    IF n = 0 THEN {<<>>}
    ELSE LET shorter == SeqsUpTo(S, n - 1)
         IN  shorter \cup {Append(s, e) : s \in {t \in shorter : Len(t) = n - 1}, e \in S}

\* rows of File 1 as (Buy Line, Vendor Name): "046" and 46.0 are one code, "A " another
MapRows ==
    { <<StrCell(<<"0", "4", "6">>), StrCell(<<"Acme">>)>>,
      <<FloatCell(FALSE, 46, 0), NaN>>,
      <<StrCell(<<"A", " ">>), StrCell(<<"Globex">>)>>,
      <<NaN, StrCell(<<"Acme">>)>> }

MapHeaders == { <<BuyLine, VendorName>>, <<<<" ">> \o BuyLine, VendorName \o <<" ">>>> }

\* File 1 without one of its two columns
BadMapFiles ==
    {Frame(<<BuyLine>>, rows) : rows \in SeqsUpTo({<<StrCell(<<"0", "4", "6">>)>>}, MaxRows)}
    \cup {Frame(<<VendorName, Qty>>, rows) :
            rows \in SeqsUpTo({<<StrCell(<<"Acme">>), StrCell(<<"7">>)>>}, MaxRows)}

MapFiles == {Frame(h, rows) : h \in MapHeaders, rows \in SeqsUpTo(MapRows, MaxRows)} \cup BadMapFiles

\* rows of File 2 as (manufacturer_Name, the other column)
DataRows ==
    { <<StrCell(<<" ", "4", "6">>), StrCell(<<"7">>)>>,
      <<NaN, StrCell(<<"8">>)>>,
      <<StrCell(<<"B">>), NaN>> }

DataHeaders ==
    { <<ManufacturerName>>,
      <<Qty, ManufacturerName>>,
      <<ManufacturerName, CodeNorm>>,
      <<ManufacturerName, VendorName>>,
      <<<<" ">> \o ManufacturerName>>,
      <<Qty>> }

\* a row of DataRows laid out under a header
DataRow(h, r) == [i \in DOMAIN h |-> IF h[i] = ManufacturerName THEN r[1] ELSE r[2]]

DataFiles ==
    {Frame(h, [i \in DOMAIN rows |-> DataRow(h, rows[i])]) :
        h \in DataHeaders, rows \in SeqsUpTo(DataRows, MaxRows)}

(***************************************************************************)
(* The session: calls of the two functions in any order.                   *)
(***************************************************************************)
Init ==
    /\ master_map = <<>>
    /\ op = "none"
    /\ arg = NoFrame
    /\ msg = "none"
    /\ ret = NoFrame
    /\ rerun = FALSE
    /\ history = <<>>
    /\ x = NaN
    /\ code = Unset
    /\ code2 = Unset

\* File 1 is uploaded: update_master_mapping(df_map)
UpdateCall(df_map) ==
    LET r == update_master_mapping(master_map, df_map)
    IN  /\ master_map' = r.master
        /\ op' = "update_master_mapping"
        /\ arg' = df_map
        /\ msg' = r.msg
        /\ ret' = NoFrame
        /\ rerun' = FALSE
        /\ UNCHANGED <<history, x, code, code2>>

\* the script reruns with File 1 still uploaded: update_master_mapping on the same frame
RerunUpdate ==
    /\ op = "update_master_mapping"
    /\ LET r == update_master_mapping(master_map, arg)
       IN  /\ master_map' = r.master
           /\ msg' = r.msg
    /\ rerun' = TRUE
    /\ UNCHANGED <<op, arg, ret, history, x, code, code2>>

\* the apply button: apply_mapping_to_file2(df2)
ApplyCall(df2) ==
    LET r == apply_mapping_to_file2(master_map, df2)
    IN  /\ master_map' = r.master
        /\ op' = "apply_mapping_to_file2"
        /\ arg' = df2
        /\ msg' = r.msg
        /\ ret' = r.ret
        /\ rerun' = FALSE
        /\ UNCHANGED <<history, x, code, code2>>

Upload == \E df_map \in MapFiles : UpdateCall(df_map)

Apply == \E df2 \in DataFiles : ApplyCall(df2)

Next == Upload \/ RerunUpdate \/ Apply

Spec == Init /\ [][Next]_vars

(***************************************************************************)
(* Ingests alone, with the history variable recording the rows they add.   *)
(***************************************************************************)
\* the rows of a File 1 that has both columns, nulls in Buy Line left out
Surviving(df_map) ==
    LET Named(name) == CHOOSE i \in DOMAIN df_map.columns : Strip(df_map.columns[i]) = name
        good == \A name \in {BuyLine, VendorName} :
                    \E i \in DOMAIN df_map.columns : Strip(df_map.columns[i]) = name
        F[i \in 0..Len(df_map.rows)] ==
            IF i = 0 THEN <<>>
            ELSE IF df_map.rows[i][Named(BuyLine)] = NaN THEN F[i - 1]
            ELSE Append(F[i - 1], [Buy_Line |-> df_map.rows[i][Named(BuyLine)],
                                   Vendor_Name |-> df_map.rows[i][Named(VendorName)]])
    IN  IF good THEN F[Len(df_map.rows)] ELSE <<>>

IngestLogged(df_map) ==
    /\ Len(history) + Len(Surviving(df_map)) <= MaxHist
    /\ master_map' = update_master_mapping(master_map, df_map).master
    /\ history' = history \o Surviving(df_map)
    /\ UNCHANGED <<op, arg, msg, ret, rerun, x, code, code2>>

NextHist == \E df_map \in MapFiles : IngestLogged(df_map)

SpecHist == Init /\ [][NextHist]_vars

(***************************************************************************)
(* Properties.                                                             *)
(***************************************************************************)
Codes(rows) == {rows[i].code_norm : i \in DOMAIN rows}
IsUpdate == op = "update_master_mapping"
IsApply == op = "apply_mapping_to_file2"
\* the manufacturer_Name cell of row i of a frame
NameAt(df, i) == df.rows[i][ColIndex(df.columns, ManufacturerName)]
ColumnSet(df) == {df.columns[i] : i \in DOMAIN df.columns}

\* C1: last write wins.  The codes of the store are the normalized Buy Lines of the
\* rows ingested so far, and the entry of a code holds the Buy Line and the Vendor
\* Name of the last ingested row with that code.
C1_LastWriteWins ==
    LET HCode(i) == normalize_code(history[i].Buy_Line)
        Last(c) == CHOOSE i \in DOMAIN history :
                      /\ HCode(i) = c
                      /\ \A j \in DOMAIN history : j > i => HCode(j) # c
    IN  /\ Codes(master_map) = {HCode(i) : i \in DOMAIN history}
        /\ \A k \in DOMAIN master_map :
              /\ master_map[k].Buy_Line = history[Last(master_map[k].code_norm)].Buy_Line
              /\ master_map[k].Vendor_Name = history[Last(master_map[k].code_norm)].Vendor_Name

\* a code ingested twice with different names holds the later name, beside another code
C1_Witness ==
    \E i, j \in DOMAIN history :
        /\ i < j
        /\ normalize_code(history[i].Buy_Line) = normalize_code(history[j].Buy_Line)
        /\ history[i].Vendor_Name # history[j].Vendor_Name
        /\ \A k \in DOMAIN history :
              k > j => normalize_code(history[k].Buy_Line) # normalize_code(history[j].Buy_Line)
        /\ \E k \in DOMAIN master_map :
              /\ master_map[k].code_norm = normalize_code(history[j].Buy_Line)
              /\ master_map[k].Vendor_Name = history[j].Vendor_Name
        /\ Len(master_map) >= 2

\* C2: no two rows of master_map have the same code_norm.
C2_OneEntryPerCode ==
    \A i, j \in DOMAIN master_map : i # j => master_map[i].code_norm # master_map[j].code_norm

\* a file with "046" and 46.0, one code, was ingested into a store holding another code
C2_Witness ==
    /\ IsUpdate
    /\ msg = "ok"
    /\ \E i, j \in DOMAIN arg.rows :
          /\ i < j
          /\ arg.rows[i][1] = StrCell(<<"0", "4", "6">>)
          /\ arg.rows[j][1] = FloatCell(FALSE, 46, 0)
    /\ Len(master_map) = 2

\* C3: update_master_mapping ends with the schema error exactly when "Buy Line" or
\* "Vendor Name" is not among the trimmed column names, and then the store is the
\* store of before the call.
C3_SchemaErrorKeepsStore ==
    [][ IsUpdate' =>
          LET trimmed == {Strip(arg'.columns[i]) : i \in DOMAIN arg'.columns}
          IN  /\ msg' = "SchemaError" <=> (BuyLine \notin trimmed \/ VendorName \notin trimmed)
              /\ msg' = "SchemaError" => master_map' = master_map ]_vars

\* a file without its Vendor Name column was refused while the store held entries
C3_Witness ==
    /\ IsUpdate
    /\ msg = "SchemaError"
    /\ ~HasCol(arg.columns, VendorName)
    /\ Len(arg.rows) > 0
    /\ master_map # <<>>

C5_ShapePreserved ==
    (IsApply /\ msg = "ok") =>
        /\ Len(ret.rows) = Len(arg.rows)
        /\ ColumnSet(ret) = ColumnSet(arg)
        /\ \A i \in DOMAIN arg.rows : \A n \in ColumnSet(arg) \ {ManufacturerName} :
              ret.rows[i][ColIndex(ret.columns, n)] = arg.rows[i][ColIndex(arg.columns, n)]

\* C6: an apply_mapping_to_file2 that ends with the missing column or with the empty
\* store returns its input: same columns, same rows, same values.
C6_FailureReturnsInput ==
    (IsApply /\ msg \in {"MissingColumn", "EmptyStore"}) => ret = arg

RemoveCommas(s) == SelectSeq(s, LAMBDA c : c # ",")

\* the rule of section 4.1 of the specification
NormalizeRule(v) ==
    IF IsNa(v) \/ (v.t = "str" /\ v.s = <<>>) THEN NaN
    ELSE LET s == RemoveCommas(Strip(PyStr(v)))
             p == ParseFloat(s)
         IN  IF p.ok THEN StrCell(IntStr(IntOfFloat(p))) ELSE StrCell(s)

\* C7: normalize_code agrees with the rule of the specification on every raw value:
\* null or empty gives null, otherwise the trimmed string without its commas, as a
\* truncated integer when it reads as a number; and it gives the five named results.
C7_NormalizeFollowsRule ==
    code # Unset =>
        /\ code = NormalizeRule(x)
        /\ x = FloatCell(FALSE, 996539, 0) => code = StrCell(<<"9", "9", "6", "5", "3", "9">>)
        /\ x = StrCell(<<"0", "4", "6", "1", "3", "5">>) => code = StrCell(<<"4", "6", "1", "3", "5">>)
        /\ x = StrCell(<<"1", "2", ",", "9", "4", "5">>) => code = StrCell(<<"1", "2", "9", "4", "5">>)
        /\ x = StrCell(<<"A", "B", "C", "-", "1", "2">>) => code = StrCell(<<"A", "B", "C", "-", "1", "2">>)
        /\ x = NaN => code = NaN

\* C8: ingest is idempotent.  A call of update_master_mapping that follows a
\* successful call with the same frame leaves the store as that call left it.
C8_IngestIdempotent ==
    [][ (IsUpdate /\ msg = "ok" /\ IsUpdate' /\ arg' = arg) => master_map' = master_map ]_vars

\* the script reran over a File 1 with two rows that add to a store of two codes
C8_Witness ==
    /\ IsUpdate
    /\ rerun
    /\ msg = "ok"
    /\ Len(arg.rows) >= 2
    /\ \A i \in DOMAIN arg.rows : arg.rows[i][1] # NaN
    /\ Len(master_map) >= 2

\* C9: normalize_code is idempotent on strings: normalizing its result gives the result.
C9_NormalizeIdempotent ==
    (x.t = "str" /\ code2 # Unset) => code2 = code

\* a padded, zero-led number was normalized twice
C9_Witness ==
    /\ x = StrCell(<<" ", " ", "0", "4">>)
    /\ code = StrCell(<<"4">>)
    /\ code2 = StrCell(<<"4">>)

\* C10: apply_mapping_to_file2 leaves the store as it was, however it ends, and the
\* store changes only in a successful update_master_mapping.
C10_ApplyKeepsStore ==
    [][ /\ IsApply' => master_map' = master_map
        /\ master_map' # master_map => (IsUpdate' /\ msg' = "ok") ]_vars

\* a successful apply ran over a store of two codes
C10_Witness ==
    /\ IsApply
    /\ msg = "ok"
    /\ Len(arg.rows) > 0
    /\ Len(master_map) = 2

====
